---- MODULE Spec2Model ----
(***************************************************************************)
(* Board-localisation geometry of chess_board_segmentation                 *)
(* (img_process_original.ipynb): intersections, cluster, closest_point,    *)
(* find_corners, find_board, split_board and gen_data.                     *)
(*                                                                         *)
(* Points carry integer coordinates; every Euclidean distance the code     *)
(* compares is compared here through its square, which orders the same way *)
(* and is exact.  The tolerance window of find_corners                     *)
(*     d > (1 - 0.25) * g  and  d < (1 + 0.25) * g                         *)
(* becomes 16*d^2 > 9*g^2 and 16*d^2 < 25*g^2.                             *)
(***************************************************************************)
EXTENDS Integers, Sequences, FiniteSets, TLC

VARIABLES
    points,         \* find_corners: the working list (mutated in place)
    img_dim,        \* find_corners: (width, height)
    grid_dist2,     \* find_corners: grid_dist, squared
    ci,             \* find_corners: index into img_corners of the outer for loop
    board_corners,  \* find_corners: the local result list
    cand,           \* find_corners: cand_board_corner of the last inner iteration
    adj,            \* find_corners: cand_board_corner_adjacent of the last inner iteration
    verdict,        \* history: what the last inner iteration did with cand
    discarded,      \* history: candidates that failed the window so far
    iters,          \* history: inner while-loop iterations begun so far
    n0,             \* history: len(points) when find_corners was entered
    pc,             \* find_corners: "start", "scan", "returned", "ValueError"
    ret,            \* find_corners: the returned list (<<>> while none is returned)
    cl_points,      \* cluster: the list of points handed in
    max_dist,       \* cluster: the distance threshold
    cl_T,           \* cluster: T, the flat cluster of each point (a set of sets of indices)
    cl_out,         \* cluster: the returned list of cluster centres
    cl_T2,          \* cluster applied to cl_out: its flat clusters
    cl_out2,        \* cluster applied to cl_out: its returned centres
    cl_pc,          \* "input", "clustered", "reclustered", "ValueError"
    ix_h,           \* intersections: h, the list of lines (rho, theta)
    ix_v,           \* intersections: v
    ix_out,         \* intersections: the returned array of points
    ix_pc,          \* "input", "returned", "LinAlgError"
    sb_img,         \* split_board: img, rows of pixels
    sb_arr,         \* split_board: the returned list of crops
    sb_pc,          \* "input", "returned"
    gd_batch,       \* gen_data: input_paths, each image by what find_board meets in it
    gd_i,           \* gen_data: the loop index (from 1)
    gd_boards,      \* gen_data: indices of the images whose board image was written
    gd_squares,     \* gen_data: indices of the images whose square images were written
    gd_pc           \* "loop", "done", "AssertionError", "ValueError"

fcVars == <<points, img_dim, grid_dist2, ci, board_corners, cand, adj, verdict,
            discarded, iters, n0, pc, ret>>

clVars == <<cl_points, max_dist, cl_T, cl_out, cl_T2, cl_out2, cl_pc>>

ixVars == <<ix_h, ix_v, ix_out, ix_pc>>

sbVars == <<sb_img, sb_arr, sb_pc>>

gdVars == <<gd_batch, gd_i, gd_boards, gd_squares, gd_pc>>

vars == <<fcVars, clVars, ixVars, sbVars, gdVars>>

(***************************************************************************)
(* Bounds of the model.                                                    *)
(***************************************************************************)
MaxX == 9
MaxY == 1
MaxPts == 4
MaxSpacing == 3
MaxRot == 2
CMax == 2
MaxClPts == 4
MaxDist == 2
MaxRho == 2
MaxLines == 2
MaxS == 2
MaxMul == 4
MaxOff == 9
MaxBatch == 3

(***************************************************************************)
(* Program constants.                                                      *)
(***************************************************************************)
GridLines == 9
BoardSquares == 8

NoPoint == <<-1, -1>>

(***************************************************************************)
(* Helpers on lists.                                                       *)
(***************************************************************************)
Range(s) == {s[i] : i \in 1..Len(s)}

Rev(s) == [i \in 1..Len(s) |-> s[Len(s) + 1 - i]]

\* list.remove(p): drops the first element equal to p (the code only removes
\* a point it has just taken from the list)
Remove(s, p) ==
    IF \A k \in 1..Len(s) : s[k] # p THEN s
    ELSE LET i == CHOOSE k \in 1..Len(s) : s[k] = p /\ \A j \in 1..(k - 1) : s[j] # p
         IN  [k \in 1..(Len(s) - 1) |-> IF k < i THEN s[k] ELSE s[k + 1]]

\* spatial.distance.euclidean, squared
Dist2(p, q) == (p[1] - q[1]) * (p[1] - q[1]) + (p[2] - q[2]) * (p[2] - q[2])

\* closest_point raises ValueError (argmin of an empty sequence) on an empty list
closest_point_never_raises(pts) == FALSE

closest_point_raises(pts) == Len(pts) = 0

\* closest_point: points[dists.argmin()], argmin being the first minimum
\* (NoPoint stands for the value of a call that raised)
closest_point(pts, loc) ==
    IF Len(pts) = 0 THEN NoPoint
    ELSE LET i == CHOOSE k \in 1..Len(pts) :
                /\ \A j \in 1..Len(pts) : Dist2(pts[j], loc) >= Dist2(pts[k], loc)
                /\ \A j \in 1..(k - 1) : Dist2(pts[j], loc) > Dist2(pts[k], loc)
         IN  pts[i]

\* a transposed corner order: (0, 0), (w, 0), (w, h), (0, h)
img_corners_clockwise(dim) == << <<0, 0>>, <<dim[1], 0>>, dim, <<0, dim[2]>> >>

\* img_corners = [(0, 0), (0, img_dim[1]), img_dim, (img_dim[0], 0)]
img_corners(dim) == << <<0, 0>>, <<0, dim[2]>>, dim, <<dim[1], 0>> >>

\* the window with both of its ends let in
InWindowClosed(d2, g2) == 16 * d2 >= 9 * g2 /\ 16 * d2 <= 25 * g2

\* corner_grid_dist > (1 - tolerance) * grid_dist and
\* corner_grid_dist < (1 + tolerance) * grid_dist, tolerance = 0.25
InWindow(d2, g2) == 16 * d2 > 9 * g2 /\ 16 * d2 < 25 * g2

(***************************************************************************)
(* find_corners, lines 121-125: the centre point, its nearest neighbour    *)
(* and grid_dist.  closest_point on an empty list raises ValueError.       *)
(***************************************************************************)
FcStart ==
    /\ pc = "start"
    /\ IF closest_point_raises(points)
       THEN /\ pc' = "ValueError"
            /\ UNCHANGED <<points, grid_dist2, ci>>
       ELSE \E center_point \in {closest_point(points, <<img_dim[1] \div 2, img_dim[2] \div 2>>)} :
            \E rest \in {Remove(points, center_point)} :
                IF closest_point_raises(rest)
                THEN /\ pc' = "ValueError"
                     /\ points' = rest
                     /\ UNCHANGED <<grid_dist2, ci>>
                ELSE \E center_adjacent_point \in {closest_point(rest, center_point)} :
                         /\ points' = Append(rest, center_point)
                         /\ grid_dist2' = Dist2(center_point, center_adjacent_point)
                         /\ ci' = 1
                         /\ pc' = "scan"
    /\ n0' = Len(points)
    /\ UNCHANGED <<img_dim, board_corners, cand, adj, verdict, discarded, iters, ret>>
    /\ UNCHANGED <<clVars, ixVars, sbVars, gdVars>>

\* a rejected candidate appended again, as an accepted one is
RetryRejected(rest, c) == Append(rest, c)

\* what the inner loop does with a candidate that failed the window: nothing,
\* the candidate stays removed
KeepRejected(rest, c) == rest

\* line 137: points.append(cand_board_corner)
PutBack(rest, c) == Append(rest, c)

(***************************************************************************)
(* find_corners, lines 130-140: one iteration of the inner while True      *)
(* loop for image corner ci; the function returns when the fourth corner   *)
(* is accepted.                                                            *)
(***************************************************************************)
FcIter ==
    /\ pc = "scan"
    /\ IF closest_point_raises(points)
       THEN /\ pc' = "ValueError"
            /\ UNCHANGED <<points, ci, board_corners, cand, adj, verdict, discarded, ret>>
       ELSE \E c \in {closest_point(points, img_corners(img_dim)[ci])} :
            \E rest \in {Remove(points, c)} :
                /\ cand' = c
                /\ IF closest_point_raises(rest)
                   THEN /\ pc' = "ValueError"
                        /\ points' = rest
                        /\ verdict' = "raised"
                        /\ UNCHANGED <<ci, board_corners, adj, discarded, ret>>
                   ELSE \E a \in {closest_point(rest, c)} :
                            /\ adj' = a
                            /\ IF InWindow(Dist2(c, a), grid_dist2)
                               THEN /\ points' = PutBack(rest, c)
                                    /\ board_corners' = Append(board_corners, c)
                                    /\ verdict' = "accepted"
                                    /\ UNCHANGED discarded
                                    /\ IF ci = 4
                                       THEN /\ pc' = "returned"
                                            /\ ret' = Append(board_corners, c)
                                            /\ UNCHANGED ci
                                       ELSE /\ ci' = ci + 1
                                            /\ UNCHANGED <<pc, ret>>
                               ELSE /\ points' = KeepRejected(rest, c)
                                    /\ verdict' = "rejected"
                                    /\ discarded' = discarded \cup {c}
                                    /\ UNCHANGED <<ci, board_corners, pc, ret>>
    /\ iters' = iters + 1
    /\ UNCHANGED <<img_dim, grid_dist2, n0>>
    /\ UNCHANGED <<clVars, ixVars, sbVars, gdVars>>


(***************************************************************************)
(* Inputs of find_corners: the caller hands over a list of at most MaxPts  *)
(* distinct points of the MaxX x MaxY image.  The list is assembled point  *)
(* by point, in column order, before find_corners starts.                  *)
(***************************************************************************)
NU == (MaxX + 1) * (MaxY + 1)

UPoint(k) == <<k \div (MaxY + 1), k % (MaxY + 1)>>

PIndex(p) == p[1] * (MaxY + 1) + p[2]

AddPoint ==
    /\ pc = "start"
    /\ Len(points) < MaxPts
    /\ \E k \in 0..(NU - 1) :
          /\ Len(points) > 0 => PIndex(points[Len(points)]) < k
          /\ points' = Append(points, UPoint(k))
    /\ UNCHANGED <<img_dim, grid_dist2, ci, board_corners, cand, adj, verdict,
                   discarded, iters, n0, pc, ret>>
    /\ UNCHANGED <<clVars, ixVars, sbVars, gdVars>>

NextCorners == AddPoint \/ FcStart \/ FcIter

NextGrid == FcStart \/ FcIter

FcFresh ==
    /\ grid_dist2 = 0
    /\ ci = 0
    /\ board_corners = <<>>
    /\ cand = NoPoint
    /\ adj = NoPoint
    /\ verdict = "none"
    /\ discarded = {}
    /\ iters = 0
    /\ n0 = 0
    /\ pc = "start"
    /\ ret = <<>>

\* the variables of the functions a specification does not run
ClIdle ==
    /\ cl_points = <<>>
    /\ max_dist = 0
    /\ cl_T = {}
    /\ cl_out = <<>>
    /\ cl_T2 = {}
    /\ cl_out2 = <<>>
    /\ cl_pc = "idle"

IxIdle ==
    /\ ix_h = <<>>
    /\ ix_v = <<>>
    /\ ix_out = <<>>
    /\ ix_pc = "idle"

SbIdle ==
    /\ sb_img = <<>>
    /\ sb_arr = <<>>
    /\ sb_pc = "idle"

GdIdle ==
    /\ gd_batch = <<>>
    /\ gd_i = 0
    /\ gd_boards = {}
    /\ gd_squares = {}
    /\ gd_pc = "idle"

FcIdle ==
    /\ points = <<>>
    /\ img_dim = <<0, 0>>
    /\ grid_dist2 = 0
    /\ ci = 0
    /\ board_corners = <<>>
    /\ cand = NoPoint
    /\ adj = NoPoint
    /\ verdict = "none"
    /\ discarded = {}
    /\ iters = 0
    /\ n0 = 0
    /\ pc = "idle"
    /\ ret = <<>>

InitCorners ==
    /\ points = <<>>
    /\ img_dim = <<MaxX, MaxY>>
    /\ FcFresh
    /\ ClIdle /\ IxIdle /\ SbIdle /\ GdIdle

SpecCorners == InitCorners /\ [][NextCorners]_vars

\* find_corners is sequential code that runs on once called: a step that can
\* be taken is taken
SpecCornersFair == SpecCorners /\ WF_vars(FcStart) /\ WF_vars(FcIter)

(***************************************************************************)
(* The perfect grid: GridLines x GridLines points of spacing s, the image  *)
(* being the grid's bounding box; listed by rows or by columns, forwards   *)
(* or backwards, rotated by up to MaxRot places.                           *)
(***************************************************************************)
GridN == GridLines * GridLines

GridList(s, byCols) ==
    [k \in 1..GridN |->
        IF byCols THEN <<((k - 1) % GridLines) * s, ((k - 1) \div GridLines) * s>>
                  ELSE <<((k - 1) \div GridLines) * s, ((k - 1) % GridLines) * s>>]

Rot(l, r) == [k \in 1..Len(l) |-> l[((k - 1 + r) % Len(l)) + 1]]

InitGrid ==
    /\ \E s \in 1..MaxSpacing, byCols \in BOOLEAN, back \in BOOLEAN, r \in 0..MaxRot :
          /\ points = Rot(IF back THEN Rev(GridList(s, byCols)) ELSE GridList(s, byCols), r)
          /\ img_dim = <<(GridLines - 1) * s, (GridLines - 1) * s>>
    /\ FcFresh
    /\ ClIdle /\ IxIdle /\ SbIdle /\ GdIdle

SpecGrid == InitGrid /\ [][NextGrid]_vars

(***************************************************************************)
(* cluster, lines 96-108.  Its points are pairs of floats and its centres  *)
(* are means; here a point is <<x, y, n>>, the rational point (x/n, y/n),  *)
(* kept in lowest terms, and distances are compared exactly.  pdist,       *)
(* hierarchy.single and hierarchy.fcluster are SciPy's: single builds the  *)
(* single-linkage dendrogram (nearest pair of clusters merged first, the   *)
(* distance of two clusters being the least distance between their         *)
(* members), fcluster(Z, t, 'distance') cuts it where the merge height     *)
(* exceeds t, and single raises ValueError on fewer than two observations. *)
(***************************************************************************)
RECURSIVE Gcd(_, _)
Gcd(a, b) == IF b = 0 THEN a ELSE Gcd(b, a % b)

Abs(a) == IF a < 0 THEN -a ELSE a

\* the rational point (x/n, y/n) in lowest terms
Norm(x, y, n) ==
    LET g == Gcd(Gcd(Abs(x), Abs(y)), n)
    IN  <<x \div g, y \div g, n \div g>>

\* pdist: the squared Euclidean distance of two rational points, <<num, den>>
DistQ(p, q) ==
    << (p[1] * q[3] - q[1] * p[3]) * (p[1] * q[3] - q[1] * p[3])
         + (p[2] * q[3] - q[2] * p[3]) * (p[2] * q[3] - q[2] * p[3]),
       (p[3] * q[3]) * (p[3] * q[3]) >>

LeQ(d, e) == d[1] * e[2] <= e[1] * d[2]

\* complete linkage: the greatest distance between members
LinkDistComplete(pts, A, B) ==
    CHOOSE d \in {DistQ(pts[i], pts[j]) : i \in A, j \in B} :
        \A i \in A, j \in B : LeQ(DistQ(pts[i], pts[j]), d)

\* single linkage: the least distance between members
LinkDist(pts, A, B) ==
    CHOOSE d \in {DistQ(pts[i], pts[j]) : i \in A, j \in B} :
        \A i \in A, j \in B : LeQ(d, DistQ(pts[i], pts[j]))

\* hierarchy.single: the merges <<A, B, height>>, nearest clusters first
RECURSIVE Linkage(_, _, _)
Linkage(pts, P, Z) ==
    IF Cardinality(P) <= 1 THEN Z
    ELSE LET pairs == {pr \in P \X P : pr[1] # pr[2]}
             best == CHOOSE pr \in pairs :
                        \A o \in pairs :
                            LeQ(LinkDist(pts, pr[1], pr[2]), LinkDist(pts, o[1], o[2]))
         IN  Linkage(pts, (P \ {best[1], best[2]}) \cup {best[1] \cup best[2]},
                     Append(Z, <<best[1], best[2], LinkDist(pts, best[1], best[2])>>))

single(pts) == Linkage(pts, {{i} : i \in 1..Len(pts)}, <<>>)

\* a cut that keeps a merge only below the threshold
BelowMaxStrict(h, t) == h[1] < t * t * h[2]

\* fcluster criterion 'distance': a merge is kept when its height is <= t
BelowMax(h, t) == h[1] <= t * t * h[2]

\* hierarchy.fcluster(Z, t, 'distance'): the flat clusters
RECURSIVE Cut(_, _, _, _)
Cut(Z, k, P, t) ==
    IF k > Len(Z) THEN P
    ELSE IF BelowMax(Z[k][3], t)
         THEN Cut(Z, k + 1, (P \ {Z[k][1], Z[k][2]}) \cup {Z[k][1] \cup Z[k][2]}, t)
         ELSE Cut(Z, k + 1, P, t)

fcluster(Z, n, t) == Cut(Z, 1, {{i} : i \in 1..n}, t)

\* sum of the fractions x[i]/n[i] over the indices of C, as <<num, den>>
RECURSIVE SumQ(_, _, _)
SumQ(pts, C, coord) ==
    IF C = {} THEN <<0, 1>>
    ELSE LET i == CHOOSE k \in C : \A j \in C : k <= j
             r == SumQ(pts, C \ {i}, coord)
         IN  <<pts[i][coord] * r[2] + r[1] * pts[i][3], pts[i][3] * r[2]>>

\* line 107: (np.mean(arr[:,0]), np.mean(arr[:,1]))
Centroid(pts, C) ==
    LET sx == SumQ(pts, C, 1)
        sy == SumQ(pts, C, 2)
        k == Cardinality(C)
    IN  Norm(sx[1] * sy[2], sy[1] * sx[2], sx[2] * sy[2] * k)

\* the clusters listed by their first member (the dict's order is unspecified)
RECURSIVE ClusterList(_)
ClusterList(P) ==
    IF P = {} THEN <<>>
    ELSE LET first == CHOOSE A \in P :
                        \A B \in P : \A b \in B : \E a \in A : a <= b
         IN  <<first>> \o ClusterList(P \ {first})

\* lines 103-108: one centre per flat cluster
Centres(pts, P) ==
    LET l == ClusterList(P) IN [k \in 1..Len(l) |-> Centroid(pts, l[k])]

CNU == (CMax + 1) * (CMax + 1)

CPoint(k) == <<k \div (CMax + 1), k % (CMax + 1), 1>>

CIndex(p) == p[1] * (CMax + 1) + p[2]

\* the caller's list: at most MaxClPts distinct points of the CMax x CMax square
AddClPoint ==
    /\ cl_pc = "input"
    /\ Len(cl_points) < MaxClPts
    /\ \E k \in 0..(CNU - 1) :
          /\ Len(cl_points) > 0 => CIndex(cl_points[Len(cl_points)]) < k
          /\ cl_points' = Append(cl_points, CPoint(k))
    /\ UNCHANGED <<max_dist, cl_T, cl_out, cl_T2, cl_out2, cl_pc>>
    /\ UNCHANGED <<fcVars, ixVars, sbVars, gdVars>>

\* cluster(points, max_dist); find_board calls it with at least 81 points,
\* here with at least two
Cluster ==
    /\ cl_pc = "input"
    /\ Len(cl_points) >= 2
    /\ \E T \in {fcluster(single(cl_points), Len(cl_points), max_dist)} :
          /\ cl_T' = T
          /\ cl_out' = Centres(cl_points, T)
    /\ cl_pc' = "clustered"
    /\ UNCHANGED <<cl_points, max_dist, cl_T2, cl_out2>>
    /\ UNCHANGED <<fcVars, ixVars, sbVars, gdVars>>

\* cluster(cluster(points, max_dist), max_dist)
Recluster ==
    /\ cl_pc = "clustered"
    /\ IF Len(cl_out) < 2
       THEN /\ cl_pc' = "ValueError"
            /\ UNCHANGED <<cl_T2, cl_out2>>
       ELSE \E T \in {fcluster(single(cl_out), Len(cl_out), max_dist)} :
               /\ cl_T2' = T
               /\ cl_out2' = Centres(cl_out, T)
               /\ cl_pc' = "reclustered"
    /\ UNCHANGED <<cl_points, max_dist, cl_T, cl_out>>
    /\ UNCHANGED <<fcVars, ixVars, sbVars, gdVars>>

NextCluster == AddClPoint \/ Cluster \/ Recluster

InitCluster ==
    /\ cl_points = <<>>
    /\ max_dist \in 1..MaxDist
    /\ cl_T = {}
    /\ cl_out = <<>>
    /\ cl_T2 = {}
    /\ cl_out2 = <<>>
    /\ cl_pc = "input"
    /\ FcIdle /\ IxIdle /\ SbIdle /\ GdIdle

SpecCluster == InitCluster /\ [][NextCluster]_vars

(***************************************************************************)
(* intersections, lines 82-94.  A line is <<rho, k>>: its angle theta is   *)
(* k * 45 degrees and Dir[k + 1] is the integer vector along               *)
(* (cos theta, sin theta), so that the line is Dir.x * x + Dir.y * y = rho *)
(* in units of the vector's length.  np.linalg.solve raises LinAlgError    *)
(* when the matrix A is singular, which it is when the two rows are the    *)
(* same direction.                                                         *)
(***************************************************************************)
Dir == << <<1, 0>>, <<1, 1>>, <<0, 1>>, <<-1, 1>> >>

\* A = [[cos a1, sin a1], [cos a2, sin a2]]: its determinant
Det(l1, l2) ==
    Dir[l1[2] + 1][1] * Dir[l2[2] + 1][2] - Dir[l1[2] + 1][2] * Dir[l2[2] + 1][1]

\* np.linalg.solve(A, b), b = [d1, d2], by Cramer's rule (A not singular)
Solve(l1, l2) ==
    LET d == Det(l1, l2)
        x == l1[1] * Dir[l2[2] + 1][2] - Dir[l1[2] + 1][2] * l2[1]
        y == Dir[l1[2] + 1][1] * l2[1] - l1[1] * Dir[l2[2] + 1][1]
    IN  IF d < 0 THEN Norm(-x, -y, -d) ELSE Norm(x, y, d)

\* the pair of index k (from 0) of the double loop: h outer, v inner
PairH(h, v, k) == h[(k \div Len(v)) + 1]

PairV(h, v, k) == v[(k % Len(v)) + 1]

\* lines 88-93: the loop from pair k on; <<outcome, points>>
RECURSIVE IntersectFrom(_, _, _, _)
IntersectFrom(h, v, k, pts) ==
    IF k >= Len(h) * Len(v) THEN <<"returned", pts>>
    ELSE IF Det(PairH(h, v, k), PairV(h, v, k)) = 0
         THEN <<"LinAlgError", <<>>>>
         ELSE IntersectFrom(h, v, k + 1, Append(pts, Solve(PairH(h, v, k), PairV(h, v, k))))

intersections(h, v) == IntersectFrom(h, v, 0, <<>>)

LNU == MaxRho * 4

LLine(k) == <<(k \div 4) + 1, k % 4>>

LIndex(l) == (l[1] - 1) * 4 + l[2]

\* the caller's lists: at most MaxLines distinct lines each, rho in 1..MaxRho
AddH ==
    /\ ix_pc = "input"
    /\ Len(ix_h) < MaxLines
    /\ \E k \in 0..(LNU - 1) :
          /\ Len(ix_h) > 0 => LIndex(ix_h[Len(ix_h)]) < k
          /\ ix_h' = Append(ix_h, LLine(k))
    /\ UNCHANGED <<ix_v, ix_out, ix_pc>>
    /\ UNCHANGED <<fcVars, clVars, sbVars, gdVars>>

AddV ==
    /\ ix_pc = "input"
    /\ Len(ix_v) < MaxLines
    /\ \E k \in 0..(LNU - 1) :
          /\ Len(ix_v) > 0 => LIndex(ix_v[Len(ix_v)]) < k
          /\ ix_v' = Append(ix_v, LLine(k))
    /\ UNCHANGED <<ix_h, ix_out, ix_pc>>
    /\ UNCHANGED <<fcVars, clVars, sbVars, gdVars>>

Intersections ==
    /\ ix_pc = "input"
    /\ \E r \in {intersections(ix_h, ix_v)} :
          /\ ix_pc' = r[1]
          /\ ix_out' = r[2]
    /\ UNCHANGED <<ix_h, ix_v>>
    /\ UNCHANGED <<fcVars, clVars, sbVars, gdVars>>

NextIntersections == AddH \/ AddV \/ Intersections

InitIntersections ==
    /\ ix_h = <<>>
    /\ ix_v = <<>>
    /\ ix_out = <<>>
    /\ ix_pc = "input"
    /\ FcIdle /\ ClIdle /\ SbIdle /\ GdIdle

SpecIntersections == InitIntersections /\ [][NextIntersections]_vars

(***************************************************************************)
(* split_board, lines 223-232.  img is a list of rows, each a list of      *)
(* pixels; a[lo:hi] is the slice of a from index lo (from 0) up to hi,     *)
(* cut at the end of a.                                                    *)
(***************************************************************************)
Min(a, b) == IF a < b THEN a ELSE b

Slice(a, lo, hi) == SubSeq(a, lo + 1, Min(hi, Len(a)))

\* the crop with rows and columns exchanged
CropTransposed(img, sq_len, i, j) ==
    LET rows == Slice(img, j * sq_len, (j + 1) * sq_len)
    IN  [r \in 1..Len(rows) |-> Slice(rows[r], i * sq_len, (i + 1) * sq_len)]

\* img[i * sq_len : (i + 1) * sq_len, j * sq_len : (j + 1) * sq_len]
Crop(img, sq_len, i, j) ==
    LET rows == Slice(img, i * sq_len, (i + 1) * sq_len)
    IN  [r \in 1..Len(rows) |-> Slice(rows[r], j * sq_len, (j + 1) * sq_len)]

\* sq_len = img.shape[0] / 8 and the double loop, i outer, j inner
split_board(img) ==
    LET sq_len == Len(img) \div BoardSquares
    IN  [k \in 1..(BoardSquares * BoardSquares) |->
            Crop(img, sq_len, (k - 1) \div BoardSquares, (k - 1) % BoardSquares)]

\* an L x L image whose pixel (r, c) is (r * L + c) * mul + off
Image(L, mul, off) ==
    [r \in 1..L |-> [c \in 1..L |-> ((r - 1) * L + (c - 1)) * mul + off]]

SplitBoard ==
    /\ sb_pc = "input"
    /\ sb_arr' = split_board(sb_img)
    /\ sb_pc' = "returned"
    /\ UNCHANGED sb_img
    /\ UNCHANGED <<fcVars, clVars, ixVars, gdVars>>

NextSplit == SplitBoard

InitSplit ==
    /\ \E S \in 1..MaxS, mul \in 0..MaxMul, off \in 0..MaxOff :
          sb_img = Image(BoardSquares * S, mul, off)
    /\ sb_arr = <<>>
    /\ sb_pc = "input"
    /\ FcIdle /\ ClIdle /\ IxIdle /\ GdIdle

SpecSplit == InitSplit /\ [][NextSplit]_vars

(***************************************************************************)
(* gen_data, lines 337-360, over find_board, lines 169-221.  An image of   *)
(* the batch is what find_board meets in it: whether the edge density is   *)
(* below 0.015, how many horizontal and vertical lines hor_vert_lines      *)
(* yields, and whether find_corners finds four corners or exhausts its     *)
(* points.  find_board has no handler and neither has gen_data.            *)
(***************************************************************************)
Images ==
    [sparse : BOOLEAN, h : {GridLines - 1, GridLines}, v : {GridLines - 1, GridLines},
     corners : BOOLEAN]

\* find_board: "board" when it returns new_img, else the exception it raises
find_board(img) ==
    IF ~img.sparse THEN "AssertionError"
    ELSE IF img.h < GridLines THEN "AssertionError"
    ELSE IF img.v < GridLines THEN "AssertionError"
    ELSE IF ~img.corners THEN "ValueError"
    ELSE "board"

\* one iteration of the for loop of gen_data, lines 347-359
GenDataStep ==
    /\ gd_pc = "loop"
    /\ gd_i <= Len(gd_batch)
    /\ IF find_board(gd_batch[gd_i]) = "board"
       THEN /\ gd_boards' = gd_boards \cup {gd_i}
            /\ gd_squares' = gd_squares \cup {gd_i}
            /\ gd_i' = gd_i + 1
            /\ gd_pc' = IF gd_i = Len(gd_batch) THEN "done" ELSE "loop"
       ELSE \* the exception leaves the for loop and gen_data
            /\ gd_pc' = find_board(gd_batch[gd_i])
            /\ UNCHANGED <<gd_i, gd_boards, gd_squares>>
    /\ UNCHANGED gd_batch
    /\ UNCHANGED <<fcVars, clVars, ixVars, sbVars>>

NextBatch == GenDataStep

InitBatch ==
    /\ \E n \in 1..MaxBatch : gd_batch \in [1..n -> Images]
    /\ gd_i = 1
    /\ gd_boards = {}
    /\ gd_squares = {}
    /\ gd_pc = "loop"
    /\ FcIdle /\ ClIdle /\ IxIdle /\ SbIdle

SpecBatch == InitBatch /\ [][NextBatch]_vars

(***************************************************************************)
(* Claims about intersections, split_board and gen_data.                   *)
(***************************************************************************)
\* the points of the pairs from k on, a parallel pair being passed over
RECURSIVE SkippingFrom(_, _, _)
SkippingFrom(h, v, k) ==
    IF k >= Len(h) * Len(v) THEN <<>>
    ELSE IF Det(PairH(h, v, k), PairV(h, v, k)) = 0
         THEN SkippingFrom(h, v, k + 1)
         ELSE <<Solve(PairH(h, v, k), PairV(h, v, k))>> \o SkippingFrom(h, v, k + 1)

\* C6: intersections never ends with the solver's error; it returns the
\* points of the non-parallel pairs, h outer and v inner, and passes over a
\* parallel pair.
C6_SkipsParallel ==
    ix_pc \in {"returned", "LinAlgError"} =>
        (ix_pc = "returned" /\ ix_out = SkippingFrom(ix_h, ix_v, 0))

\* C7: for an L x L image, L = 8 * S, split_board returns 64 crops of S x S
\* pixels, crop i * 8 + j being rows [i*S, (i+1)*S) and columns
\* [j*S, (j+1)*S) of the image; so every pixel of the image lies in exactly
\* one crop and the crops put back in row-major order are the image.
C7_SplitRoundTrip ==
    sb_pc = "returned" =>
        LET L == Len(sb_img)
            S == L \div BoardSquares
        IN  /\ Len(sb_arr) = 64
            /\ \A k \in 1..Len(sb_arr) :
                  /\ Len(sb_arr[k]) = S
                  /\ \A r \in 1..S :
                        /\ Len(sb_arr[k][r]) = S
                        /\ \A c \in 1..S :
                              sb_arr[k][r][c] =
                                 sb_img[((k - 1) \div 8) * S + r][((k - 1) % 8) * S + c]
            /\ [r \in 1..L |-> [c \in 1..L |->
                    sb_arr[((r - 1) \div S) * 8 + ((c - 1) \div S) + 1]
                          [((r - 1) % S) + 1][((c - 1) % S) + 1]]] = sb_img

C7_Witness ==
    /\ sb_pc = "returned"
    /\ Len(sb_img) = 16
    /\ sb_img[1][1] # sb_img[1][2]
    /\ Len(sb_arr) = 64

\* C8: when gen_data has ended, every image of the batch on which find_board
\* does not fail has had its board image and square images written, and no
\* image on which it fails has.
C8_FailureIsolated ==
    gd_pc \in {"done", "AssertionError", "ValueError"} =>
        \A k \in 1..Len(gd_batch) :
            IF find_board(gd_batch[k]) = "board"
            THEN k \in gd_boards /\ k \in gd_squares
            ELSE k \notin gd_boards /\ k \notin gd_squares

(***************************************************************************)
(* Claims about cluster.                                                   *)
(***************************************************************************)
\* the points of pts joined to a point of S by a chain of steps of length <= t
RECURSIVE Chained(_, _, _)
Chained(pts, S, t) ==
    LET more == {j \in 1..Len(pts) :
                    \E i \in S :
                        (pts[i][1] * pts[j][3] - pts[j][1] * pts[i][3])
                            * (pts[i][1] * pts[j][3] - pts[j][1] * pts[i][3])
                        + (pts[i][2] * pts[j][3] - pts[j][2] * pts[i][3])
                            * (pts[i][2] * pts[j][3] - pts[j][2] * pts[i][3])
                        <= t * t * pts[i][3] * pts[j][3] * pts[i][3] * pts[j][3]}
    IN  IF more \subseteq S THEN S ELSE Chained(pts, S \cup more, t)

Components(pts, t) == {Chained(pts, {i}, t) : i \in 1..Len(pts)}

RECURSIVE SumCoord(_, _, _)
SumCoord(pts, C, coord) ==
    IF C = {} THEN 0
    ELSE LET i == CHOOSE k \in C : TRUE
         IN  pts[i][coord] + SumCoord(pts, C \ {i}, coord)

\* C4: the flat clusters of cluster(points, max_dist) are exactly the classes
\* of points joined by chains of steps <= max_dist, and the centres returned
\* are, one for one, the means of those classes.
C4_SingleLinkChains ==
    cl_pc \in {"clustered", "reclustered", "ValueError"} =>
        /\ \A i, j \in 1..Len(cl_points) :
              (\E A \in cl_T : i \in A /\ j \in A) <=> j \in Chained(cl_points, {i}, max_dist)
        /\ Len(cl_out) = Cardinality(Components(cl_points, max_dist))
        /\ \A C \in Components(cl_points, max_dist) :
              \E k \in 1..Len(cl_out) :
                 /\ cl_out[k][1] * Cardinality(C) = SumCoord(cl_points, C, 1) * cl_out[k][3]
                 /\ cl_out[k][2] * Cardinality(C) = SumCoord(cl_points, C, 2) * cl_out[k][3]

\* two points farther apart than max_dist share a cluster, and another cluster exists
C4_Witness ==
    /\ cl_pc = "clustered"
    /\ Cardinality(cl_T) >= 2
    /\ \E A \in cl_T : \E i, j \in A :
          DistQ(cl_points[i], cl_points[j])[1] > max_dist * max_dist

\* C5 as stated: cluster applied to the centres it returned, with the same
\* max_dist, yields one cluster per centre and the same set of centres.
C5_Idempotent ==
    cl_pc = "reclustered" =>
        (Cardinality(cl_T2) = Len(cl_out) /\ Range(cl_out2) = Range(cl_out))

\* C5 amended: applied to two or more centres, cluster yields one cluster per
\* centre, and the same set of centres, exactly when the centres are pairwise
\* farther apart than max_dist; otherwise it merges some of them.
C5_IdempotentWhenApart ==
    cl_pc = "reclustered" =>
        /\ Cardinality(cl_T2) <= Len(cl_out)
        /\ (Cardinality(cl_T2) = Len(cl_out) /\ Range(cl_out2) = Range(cl_out))
              <=> \A i, j \in 1..Len(cl_out) :
                     i # j =>
                        DistQ(cl_out[i], cl_out[j])[1]
                           > max_dist * max_dist * DistQ(cl_out[i], cl_out[j])[2]

\* the centres of two different clusters were merged by the second application
C5_Witness ==
    /\ cl_pc = "reclustered"
    /\ Cardinality(cl_T2) < Len(cl_out)
    /\ Len(cl_out) < Len(cl_points)

(***************************************************************************)
(* Claims about find_corners.                                              *)
(***************************************************************************)
Distinct4(l) == \A i, j \in 1..Len(l) : i # j => l[i] # l[j]

\* the least squared distance from p to a point of the set S
MinDist2(p, S) == CHOOSE d \in {Dist2(p, q) : q \in S} : \A q \in S : Dist2(p, q) >= d

\* C1: on the perfect GridLines x GridLines grid with the image equal to its
\* bounding box, find_corners never raises, rejects no candidate and returns
\* exactly top-left, bottom-left, bottom-right, top-right of the grid.
C1_GridCorners ==
    /\ pc # "ValueError"
    /\ discarded = {}
    /\ pc = "returned" =>
          ret = << <<0, 0>>, <<0, img_dim[2]>>, <<img_dim[1], img_dim[2]>>, <<img_dim[1], 0>> >>

C1_Witness == pc = "returned" /\ img_dim = <<16, 16>> /\ Len(ret) = 4

\* C2: whenever find_corners returns, the four returned points are mutually
\* distinct.
C2_DistinctCorners == pc = "returned" => Distinct4(ret)

\* C3: an inner iteration that leaves the working set empty after taking its
\* candidate out ends find_corners with the error, and whenever find_corners
\* has ended with the error no corner list has been returned, however many
\* corners had been accepted.
C3_ExhaustedRaises ==
    [][/\ (pc = "scan" /\ Len(points) <= 1) => pc' = "ValueError"
       /\ pc' = "ValueError" => ret' = <<>>]_vars

C3_Witness == pc = "ValueError" /\ Len(board_corners) >= 1 /\ ret = <<>> /\ ci >= 2

\* C9 as stated: the candidate is the working point closest to the image
\* corner, d is its distance to its nearest remaining neighbour, and it is
\* accepted iff 0.75 * grid_dist <= d <= 1.25 * grid_dist, both ends included.
C9_ClosedWindow ==
    [][(pc = "scan" /\ Len(points) >= 2 /\ pc' # "ValueError") =>
          (verdict' = "accepted" <=>
             (9 * grid_dist2 <= 16 * Dist2(cand', adj')
              /\ 16 * Dist2(cand', adj') <= 25 * grid_dist2))]_vars

\* C9 amended: the same with both ends excluded, 0.75 * grid_dist < d <
\* 1.25 * grid_dist; grid_dist is the distance from a point closest to the
\* image centre to its nearest other point.
C9_OpenWindow ==
    [][/\ (pc = "start" /\ pc' = "scan") =>
            \E cp \in Range(points) :
               /\ \A q \in Range(points) :
                     Dist2(q, <<img_dim[1] \div 2, img_dim[2] \div 2>>)
                        >= Dist2(cp, <<img_dim[1] \div 2, img_dim[2] \div 2>>)
               /\ grid_dist2' = MinDist2(cp, Range(points) \ {cp})
       /\ (pc = "scan" /\ Len(points) >= 2 /\ pc' # "ValueError") =>
            /\ cand' \in Range(points)
            /\ \A q \in Range(points) :
                  Dist2(q, img_corners(img_dim)[ci]) >= Dist2(cand', img_corners(img_dim)[ci])
            /\ Dist2(cand', adj') = MinDist2(cand', Range(points) \ {cand'})
            /\ verdict' \in {"accepted", "rejected"}
            /\ verdict' = "accepted" <=>
                  (9 * grid_dist2 < 16 * Dist2(cand', adj')
                   /\ 16 * Dist2(cand', adj') < 25 * grid_dist2)]_vars

\* a candidate exactly 1.25 * grid_dist from its nearest neighbour was rejected
C9_Witness ==
    /\ verdict = "rejected"
    /\ grid_dist2 > 0
    /\ 16 * Dist2(cand, adj) = 25 * grid_dist2

\* C10: a candidate that failed the window is never tried again, never
\* counted as a nearest neighbour, never in the working set again and never
\* among the corners; an accepted candidate remains in the working set.
C10_NonBacktracking ==
    [][/\ (pc = "scan" /\ Len(points) >= 2) =>
            (cand' \notin discarded /\ adj' \notin discarded)
       /\ discarded' \cap Range(points') = {}
       /\ discarded' \cap Range(board_corners') = {}
       /\ Range(board_corners') \subseteq Range(points')]_vars

\* C11: every inner iteration either accepts its candidate and leaves the
\* while loop (the next image corner, or the return) or leaves the working
\* list one point shorter; no more than len(points) + 4 inner iterations are
\* ever begun, and find_corners ends, with its corners or with the error.
C11_Terminates ==
    /\ [][pc = "scan" =>
            /\ iters' = iters + 1
            /\ iters' <= n0 + 4
            /\ \/ /\ verdict' = "accepted"
                  /\ Len(board_corners') = Len(board_corners) + 1
                  /\ pc' = "returned" \/ (pc' = "scan" /\ ci' = ci + 1)
               \/ /\ Len(points') = Len(points) - 1
                  /\ ci' = ci
                  /\ pc' \in {"scan", "ValueError"}]_vars
    /\ <>(pc \in {"returned", "ValueError"})

\* a run that rejected candidates, went on and returned four corners
C11_Witness ==
    /\ pc = "returned"
    /\ Cardinality(discarded) >= 1
    /\ iters = Cardinality(discarded) + 4

====
